---- MODULE Spec2Model ----
(***************************************************************************)
(* A model of the choreographer sequencing engine (src/src/engine.rs,      *)
(* src/src/behaviors.rs): a Sequence of Actions polled against a rolling   *)
(* u32 tick counter.  The data operators below follow the Rust functions   *)
(* one by one; the actions at the end are the public operations of         *)
(* Sequence (set, clear, poll) and the passage of time.                    *)
(***************************************************************************)
EXTENDS Integers, Sequences, FiniteSets, TLC

(***************************************************************************)
(* Bounds of the model.                                                    *)
(***************************************************************************)
\* capacity N of Sequence<R, N>
Cap == 2
\* number of ticks the timer is followed for
MaxClock == 7
\* the timer starts this many ticks before the tick counter wraps
WrapIn == 3
\* number of poll() calls followed at one tick
MaxBurst == 2
\* width of the tick counter: Tick = u32 in the source, scaled down here
\* because the model checker's integers are 32-bit signed
TickBits == 16

(***************************************************************************)
(* Program constants.                                                      *)
(***************************************************************************)
\* number of values of the wrapping Tick type
TickMod == 2 ^ TickBits
\* TestTimer::TICKS_PER_SECOND
TicksPerSecond == 1000
\* channels are u8
ChanMod == 256

BLACK == <<0, 0, 0>>
WHITE == <<255, 255, 255>>
RED == <<255, 0, 0>>

(***************************************************************************)
(* Option<RGB8>                                                            *)
(***************************************************************************)
None == [some |-> FALSE, color |-> BLACK]
Some(c) == [some |-> TRUE, color |-> c]
\* the harness has not polled since the last set()
NoPoll == [some |-> FALSE, color |-> <<0, 0, 0, 0>>]

(***************************************************************************)
(* Wrapping u32 arithmetic and the timer.                                  *)
(***************************************************************************)
WrappingAdd(a, b) == (a + b) % TickMod
WrappingSub(a, b) == (a - b + TickMod) % TickMod

\* RollingTimer::millis_since(start) for a timer reading `now`
MillisSince(now, start) == WrappingSub(now, start) \div (TicksPerSecond \div 1000)

Min(a, b) == IF a < b THEN a ELSE b
Abs(x) == IF x < 0 THEN -x ELSE x

(***************************************************************************)
(* LoopBehavior                                                            *)
(***************************************************************************)
OneShot == [tag |-> "OneShot", current |-> 0, cycles |-> 0]
LoopForever == [tag |-> "LoopForever", current |-> 0, cycles |-> 0]
LoopN(cur, cyc) == [tag |-> "LoopN", current |-> cur, cycles |-> cyc]
Nop == [tag |-> "Nop", current |-> 0, cycles |-> 0]

(***************************************************************************)
(* Behaviors: poll(context) -> Option<RGB8>                                *)
(***************************************************************************)
\* StayColor::poll with `>` for `>=`
StayColorPollStrict(a, now) ==
    IF MillisSince(now, a.start_tick) > a.duration_ms
    THEN None
    ELSE Some(a.color)

StayColorPoll(a, now) ==
    IF MillisSince(now, a.start_tick) >= a.duration_ms
    THEN None
    ELSE Some(a.color)

\* f32: a value is m * 2^(-k) with a significand m of F32Mant bits
F32Mant == 24
F32Half == 2 ^ 12

RECURSIVE F32DivBits(_, _, _, _)
\* binary long division of rem/d until the significand is full, then
\* round to nearest, ties to even
F32DivBits(rem, d, m, k) ==
    IF m >= 2 ^ (F32Mant - 1)
    THEN [m |-> IF 2 * rem > d \/ (2 * rem = d /\ m % 2 = 1)
                THEN m + 1 ELSE m,
          k |-> k]
    ELSE LET bit == IF 2 * rem >= d THEN 1 ELSE 0
         IN  F32DivBits(2 * rem - bit * d, d, 2 * m + bit, k + 1)

\* `(delta as f32) / (duration_ms as f32)` for delta < duration_ms,
\* both below 2^24 and so exact as f32
F32Div(n, d) == IF n = 0 THEN [m |-> 0, k |-> 0] ELSE F32DivBits(n, d, 0, 0)

\* the number of low bits a product hi * 2^12 + lo loses in an f32
F32Drop(hi) ==
    CHOOSE n \in 0..12 : hi < 2 ^ (12 + n) /\ (n = 0 \/ hi >= 2 ^ (11 + n))

\* p + r / w rounded to nearest, ties to even
F32Round(p, r, w) ==
    IF 2 * r > w \/ (2 * r = w /\ p % 2 = 1) THEN p + 1 ELSE p

\* hi * 2^12 + lo rounded to F32Mant bits, then divided by 2^k and truncated
F32Shift(hi, lo, s, k) ==
    IF k - s >= 31
    THEN 0
    ELSE F32Round(hi * 2 ^ (12 - s) + lo \div 2 ^ s, lo % 2 ^ s, 2 ^ s) \div 2 ^ (k - s)

\* x * m as hi * 2^12 + lo
F32Prod(x, mh, ml, k) ==
    F32Shift(x * mh + (x * ml) \div F32Half, (x * ml) % F32Half,
             F32Drop(x * mh + (x * ml) \div F32Half), k)

\* `(x * norm_dt) as i16` for an integer 0 <= x < 256: the product is
\* rounded to F32Mant bits (nearest, ties to even), the cast truncates
F32MulTrunc(x, q) == F32Prod(x, q.m \div F32Half, q.m % F32Half, q.k)

\* last + (d * norm_dt) as i16, as u8, for the channel difference d
SeekAdd(last, d, q) ==
    (last + (IF d >= 0 THEN F32MulTrunc(d, q) ELSE -F32MulTrunc(-d, q))) % ChanMod

\* one channel of SeekColor::poll
SeekChan(last, target, delta, dur) == SeekAdd(last, target - last, F32Div(delta, dur))

SeekColorPoll(a, now) ==
    LET delta == MillisSince(now, a.start_tick) IN
    IF delta >= a.duration_ms
    THEN None
    ELSE Some(<<SeekChan(a.last_color[1], a.color[1], delta, a.duration_ms),
                SeekChan(a.last_color[2], a.color[2], delta, a.duration_ms),
                SeekChan(a.last_color[3], a.color[3], delta, a.duration_ms)>>)

\* F32Ext::sin and F32Ext::cos on a grid of SinGrid points per turn, as
\* multiples of 1/SinScale: the angle 2*pi*k/SinGrid is written k
SinGrid == 48
SinScale == 10000
SinQuarter ==
    <<0, 1305, 2588, 3827, 5000, 6088, 7071, 7934, 8660, 9239, 9659, 9914, 10000>>

Sin(k) ==
    LET j == k % SinGrid IN
    CASE j <= 12 -> SinQuarter[j + 1]
      [] j > 12 /\ j <= 24 -> SinQuarter[24 - j + 1]
      [] j > 24 /\ j <= 36 -> -SinQuarter[j - 24 + 1]
      [] j > 36 -> -SinQuarter[48 - j + 1]

Cos(k) == Sin(k + 12)

\* normalized * 2 * PI as a grid angle, for the times and periods that fall on
\* the grid
RadNorm(deltaf, period) ==
    CASE (SinGrid * deltaf) % period = 0 -> ((SinGrid * deltaf) \div period) % SinGrid

\* one channel of Cycler::poll: (abs_out * c as f32) as u8
CyclerChan(abs_out, c) == (abs_out * c) \div SinScale

\* Cycler::poll without the doubling of the period
CyclerPollSinglePeriod(a, now) ==
    LET delta == MillisSince(now, a.start_tick) IN
    IF delta >= a.duration_ms
    THEN None
    ELSE LET period == a.period_ms
             deltaf == WrappingAdd(delta, a.phase_offset_ms)
             rad_norm == RadNorm(deltaf, period)
             out_norm == IF a.func = "cos" THEN Cos(rad_norm) ELSE Sin(rad_norm)
             abs_out == Abs(out_norm)
         IN  Some(<<CyclerChan(abs_out, a.color[1]), CyclerChan(abs_out, a.color[2]),
                    CyclerChan(abs_out, a.color[3])>>)

CyclerPoll(a, now) ==
    LET delta == MillisSince(now, a.start_tick) IN
    IF delta >= a.duration_ms
    THEN None
    ELSE LET period == a.period_ms * 2
             deltaf == WrappingAdd(delta, a.phase_offset_ms)
             rad_norm == RadNorm(deltaf, period)
             out_norm == IF a.func = "cos" THEN Cos(rad_norm) ELSE Sin(rad_norm)
             abs_out == Abs(out_norm)
         IN  Some(<<CyclerChan(abs_out, a.color[1]), CyclerChan(abs_out, a.color[2]),
                    CyclerChan(abs_out, a.color[3])>>)

\* FadeColor::poll
FadeColorPoll(a, now) == CyclerPoll(a, now)

InnerActionPoll(a, now) ==
    CASE a.kind = "Static" -> StayColorPoll(a, now)
      [] a.kind = "Seek" -> SeekColorPoll(a, now)
      [] a.kind = "Sin" -> CyclerPoll(a, now)
      [] a.kind = "Fade" -> FadeColorPoll(a, now)

(***************************************************************************)
(* Context                                                                 *)
(***************************************************************************)
\* calc_end with saturating_add for wrapping_add
CalcEndSaturating(a) ==
    Min(a.start_tick + a.duration_ms * (TicksPerSecond \div 1000), TickMod - 1)

\* calc_end with the milliseconds scaled by the wrong divisor
CalcEndScaled(a) ==
    WrappingAdd(a.start_tick, (a.duration_ms * (TicksPerSecond \div 100)) % TickMod)

CalcEnd(a) == WrappingAdd(a.start_tick, (a.duration_ms * (TicksPerSecond \div 1000)) % TickMod)

\* calc_end_phase without the duration
CalcEndPhaseNoAdd(a) == a.phase_offset_ms

CalcEndPhase(a) == WrappingAdd(a.phase_offset_ms, a.duration_ms)

\* Context::reinit overwriting the phase offset in every mode
ContextReinitOverwrites(a, start, start_ph, last_color) ==
    [a EXCEPT !.start_tick = start, !.last_color = last_color,
              !.phase_offset_ms = start_ph,
              !.auto_incr_phase = IF @ = "Once" THEN "Never" ELSE @]

ContextReinit(a, start, start_ph, last_color) ==
    LET b == [a EXCEPT !.start_tick = start, !.last_color = last_color] IN
    CASE a.auto_incr_phase = "Never" -> b
      [] a.auto_incr_phase = "Once" ->
            [b EXCEPT !.phase_offset_ms = start_ph, !.auto_incr_phase = "Never"]
      [] a.auto_incr_phase = "Forever" ->
            [b EXCEPT !.phase_offset_ms = start_ph]

(***************************************************************************)
(* Action                                                                  *)
(***************************************************************************)
\* Action::reinit leaving the LoopN counter as it is
ActionReinitKeepsCount(a, start, end_ph, last_color) ==
    ContextReinit(a, start, end_ph, last_color)

ActionReinit(a, start, end_ph, last_color) ==
    LET b == ContextReinit(a, start, end_ph, last_color) IN
    IF b.behavior.tag = "LoopN"
    THEN [b EXCEPT !.behavior.current = 0]
    ELSE b

\* Action::poll restarting a Forever step on every sample
ActionPollRestarts(a, now) ==
    LET r1 == InnerActionPoll(a, now) IN
    IF a.behavior.tag = "LoopForever" /\ r1.some
    THEN [act |-> [a EXCEPT !.start_tick = now], res |-> r1, evals |-> 1]
    ELSE [act |-> a, res |-> r1, evals |-> 1]

\* Action::poll retrying a Forever step a second time
ActionPollRetriesTwice(a, now) ==
    LET r1 == InnerActionPoll(a, now) IN
    CASE a.behavior.tag = "OneShot" -> [act |-> a, res |-> r1, evals |-> 1]
      [] a.behavior.tag = "LoopForever" ->
            IF r1.some
            THEN [act |-> a, res |-> r1, evals |-> 1]
            ELSE LET a2 == ContextReinit(a, CalcEnd(a), CalcEndPhase(a), a.color)
                     r2 == InnerActionPoll(a2, now)
                     a3 == ContextReinit(a2, CalcEnd(a2), CalcEndPhase(a2), a2.color)
                 IN  IF r2.some
                     THEN [act |-> a2, res |-> r2, evals |-> 2]
                     ELSE [act |-> a3, res |-> InnerActionPoll(a3, now), evals |-> 3]
      [] a.behavior.tag = "LoopN" ->
            IF r1.some
            THEN [act |-> a, res |-> r1, evals |-> 1]
            ELSE IF a.behavior.current < a.behavior.cycles
                 THEN LET a2 == [a EXCEPT !.behavior.current = @ + 1]
                      IN  [act |-> a2, res |-> InnerActionPoll(a2, now), evals |-> 2]
                 ELSE [act |-> a, res |-> None, evals |-> 1]
      [] a.behavior.tag = "Nop" -> [act |-> a, res |-> None, evals |-> 0]

\* the match of Action::poll on the behaviour, r1 being the value of the
\* first self.action.poll()
ActionPollMatch(a, now, r1) ==
    CASE a.behavior.tag = "OneShot" -> [act |-> a, res |-> r1, evals |-> 1]
      [] a.behavior.tag = "LoopForever" ->
            IF r1.some
            THEN [act |-> a, res |-> r1, evals |-> 1]
            ELSE LET a2 == ContextReinit(a, CalcEnd(a), CalcEndPhase(a), a.color)
                 IN  [act |-> a2, res |-> InnerActionPoll(a2, now), evals |-> 2]
      [] a.behavior.tag = "LoopN" ->
            IF r1.some
            THEN [act |-> a, res |-> r1, evals |-> 1]
            ELSE IF a.behavior.current < a.behavior.cycles
                 THEN LET a2 == [a EXCEPT !.behavior.current = @ + 1]
                      IN  [act |-> a2, res |-> InnerActionPoll(a2, now), evals |-> 2]
                 ELSE [act |-> a, res |-> None, evals |-> 1]
      [] a.behavior.tag = "Nop" -> [act |-> a, res |-> None, evals |-> 0]

\* Action::poll: the action after the call and the value returned
ActionPoll(a, now) == ActionPollMatch(a, now, InnerActionPoll(a, now))

(***************************************************************************)
(* ActionBuilder                                                           *)
(***************************************************************************)
\* kind is the variant of InnerActionKind, func the function of its Cycler
ActionBuilderNew ==
    [kind |-> "Static", func |-> "none", behavior |-> Nop, start_tick |-> 0,
     auto_incr_phase |-> "Never", period_ms |-> 0, duration_ms |-> 0,
     phase_offset_ms |-> 0, last_color |-> BLACK, color |-> BLACK]

BSolid(a) == [a EXCEPT !.kind = "Static", !.func = "none"]
BSeek(a) == [a EXCEPT !.kind = "Seek", !.func = "none"]
BSin(a) == [a EXCEPT !.kind = "Sin", !.func = "sin"]
BCos(a) == [a EXCEPT !.kind = "Sin", !.func = "cos"]
\* FadeColor::new_fade_up and new_fade_down set the period from the duration
\* the context has when they are called
BFadeUp(a) == [a EXCEPT !.kind = "Fade", !.func = "sin", !.period_ms = a.duration_ms * 2]
BFadeDown(a) == [a EXCEPT !.kind = "Fade", !.func = "cos", !.period_ms = a.duration_ms * 2]
BColor(a, c) == [a EXCEPT !.color = c]
BForMs(a, d) ==
    IF a.kind = "Fade"
    THEN [a EXCEPT !.duration_ms = d, !.period_ms = d * 4]
    ELSE [a EXCEPT !.duration_ms = d]
BDurPerMs(a, d, p) ==
    [a EXCEPT !.duration_ms = d,
              !.period_ms = CASE a.kind = "Sin" -> p * 2
                              [] a.kind = "Static" -> p
                              [] a.kind = "Fade" -> d * 4
                              [] a.kind = "Seek" -> p]
BPeriodMs(a, p) == [a EXCEPT !.period_ms = p]
\* PhaseIncr
Millis(ms) == [tag |-> "Millis", ms |-> ms]
AutoIncr == [tag |-> "AutoIncr", ms |-> 0]
AutoIncrOnStart == [tag |-> "AutoIncrOnStart", ms |-> 0]
BPhaseOffsetMs(a, ph) ==
    CASE ph.tag = "Millis" ->
            [a EXCEPT !.phase_offset_ms = ph.ms, !.auto_incr_phase = "Never"]
      [] ph.tag = "AutoIncr" ->
            [a EXCEPT !.phase_offset_ms = 0, !.auto_incr_phase = "Forever"]
      [] ph.tag = "AutoIncrOnStart" ->
            [a EXCEPT !.phase_offset_ms = 0, !.auto_incr_phase = "Once"]
BOnce(a) == [a EXCEPT !.behavior = OneShot]
BForever(a) == [a EXCEPT !.behavior = LoopForever]
BTimes(a, ct) == [a EXCEPT !.behavior = LoopN(0, ct)]

\* ActionBuilder::new()...finish() as the script! rows call it
Build(kind, c, d, rep) ==
    LET k == IF kind = "Seek" THEN BSeek(ActionBuilderNew) ELSE BSolid(ActionBuilderNew)
        b == BForMs(BColor(k, c), d)
    IN  CASE rep = "once" -> BOnce(b)
          [] rep = "forever" -> BForever(b)
          [] rep = "times1" -> BTimes(b, 1)
          [] rep = "times2" -> BTimes(b, 2)
          [] rep = "nop" -> b

\* one row of script!: $action().color().for_ms().period_ms().phase_offset_ms()
\* .$repeat().finish()
Row(action, c, d, p, ph, rp) ==
    LET k == CASE action = "solid" -> BSolid(ActionBuilderNew)
               [] action = "seek" -> BSeek(ActionBuilderNew)
               [] action = "sin" -> BSin(ActionBuilderNew)
               [] action = "cos" -> BCos(ActionBuilderNew)
               [] action = "fade_up" -> BFadeUp(ActionBuilderNew)
               [] action = "fade_down" -> BFadeDown(ActionBuilderNew)
        b == BPhaseOffsetMs(BPeriodMs(BForMs(BColor(k, c), d), p), ph)
    IN  CASE rp = "once" -> BOnce(b)
          [] rp = "forever" -> BForever(b)
          [] rp = "times1" -> BTimes(b, 1)

(***************************************************************************)
(* Sequence                                                                *)
(***************************************************************************)
\* Sequence::new()
SequenceNew == [seq |-> <<>>, position |-> 0, behavior |-> Nop, never_run |-> TRUE]

\* Sequence::empty()
SequenceEmpty == [seq |-> <<>>, position |-> 0, behavior |-> OneShot, never_run |-> TRUE]

\* clear() that forgets the cursor
SequenceClearKeepCursor(s) == [s EXCEPT !.seq = <<>>]

SequenceClear(s) == [s EXCEPT !.seq = <<>>, !.position = 0]

SequenceSet(s, actions, policy) ==
    LET amt == Min(Cap, Len(actions))
        c == SequenceClear(s)
    IN  [c EXCEPT !.never_run = TRUE,
                  !.seq = SubSeq(actions, 1, amt),
                  !.behavior = policy]

\* the never_run branch without the re-initialisation
FirstRunNoReinit(s, now) == [s EXCEPT !.never_run = FALSE]

\* the never_run branch of Sequence::poll
FirstRun(s, now) ==
    IF s.never_run
    THEN LET i == s.position + 1
             ph == s.seq[i].phase_offset_ms
         IN  [s EXCEPT !.seq[i] = ActionReinit(s.seq[i], now, ph, BLACK),
                       !.never_run = FALSE]
    ELSE s

\* the sequence with the polled action p.act stored at the cursor, and the
\* value p.res it returned
Polled(s, p) ==
    [s |-> [s EXCEPT !.seq[s.position + 1] = p.act], res |-> p.res, evals |-> p.evals]

\* the next step re-initialised but not polled
EnterNoPoll(s, now, end, end_ph, last_color) ==
    LET i == s.position + 1
    IN  [s |-> [s EXCEPT !.seq[i] = ActionReinit(s.seq[i], end, end_ph, last_color)],
         res |-> None, evals |-> 0]

\* the next step started at the tick of the poll instead of `end`
EnterAtNow(s, now, end, end_ph, last_color) ==
    LET i == s.position + 1
        p == ActionPoll(ActionReinit(s.seq[i], now, end_ph, last_color), now)
    IN  [s |-> [s EXCEPT !.seq[i] = p.act], res |-> p.res, evals |-> p.evals]

\* seq[*position].reinit(end, end_ph, last_color); seq[*position].poll()
Enter(s, now, end, end_ph, last_color) ==
    Polled(s, ActionPoll(ActionReinit(s.seq[s.position + 1], end, end_ph, last_color), now))

\* the or_else closure with `<=` for `<` in the LoopN arm
AdvanceOneMore(s, now) ==
    LET i == s.position + 1
        end == CalcEnd(s.seq[i])
        end_ph == CalcEndPhase(s.seq[i])
        last_color == s.seq[i].color
        nxt == s.position + 1
    IN  CASE s.behavior.tag = "OneShot" ->
               IF nxt < Len(s.seq)
               THEN Enter([s EXCEPT !.position = nxt], now, end, end_ph, last_color)
               ELSE [s |-> [s EXCEPT !.position = nxt], res |-> None, evals |-> 0]
          [] s.behavior.tag = "LoopForever" ->
               Enter([s EXCEPT !.position = IF nxt >= Len(s.seq) THEN 0 ELSE nxt],
                     now, end, end_ph, last_color)
          [] s.behavior.tag = "LoopN" ->
               IF nxt >= Len(s.seq)
               THEN IF s.behavior.current <= s.behavior.cycles
                    THEN Enter([s EXCEPT !.position = 0, !.behavior.current = @ + 1],
                               now, end, end_ph, last_color)
                    ELSE [s |-> [s EXCEPT !.position = nxt], res |-> None, evals |-> 0]
               ELSE Enter([s EXCEPT !.position = nxt], now, end, end_ph, last_color)

\* the or_else closures of the OneShot and LoopForever arms exchanged
AdvanceSwapped(s, now) ==
    LET i == s.position + 1
        end == CalcEnd(s.seq[i])
        end_ph == CalcEndPhase(s.seq[i])
        last_color == s.seq[i].color
        nxt == s.position + 1
    IN  CASE s.behavior.tag = "LoopForever" ->
               IF nxt < Len(s.seq)
               THEN Enter([s EXCEPT !.position = nxt], now, end, end_ph, last_color)
               ELSE [s |-> [s EXCEPT !.position = nxt], res |-> None, evals |-> 0]
          [] s.behavior.tag = "OneShot" ->
               Enter([s EXCEPT !.position = IF nxt >= Len(s.seq) THEN 0 ELSE nxt],
                     now, end, end_ph, last_color)
          [] s.behavior.tag = "LoopN" ->
               IF nxt >= Len(s.seq)
               THEN IF s.behavior.current < s.behavior.cycles
                    THEN Enter([s EXCEPT !.position = 0, !.behavior.current = @ + 1],
                               now, end, end_ph, last_color)
                    ELSE [s |-> [s EXCEPT !.position = nxt], res |-> None, evals |-> 0]
               ELSE Enter([s EXCEPT !.position = nxt], now, end, end_ph, last_color)

\* the or_else closure of the three looping arms of Sequence::poll
Advance(s, now) ==
    LET i == s.position + 1
        end == CalcEnd(s.seq[i])
        end_ph == CalcEndPhase(s.seq[i])
        last_color == s.seq[i].color
        nxt == s.position + 1
    IN  CASE s.behavior.tag = "OneShot" ->
               IF nxt < Len(s.seq)
               THEN Enter([s EXCEPT !.position = nxt], now, end, end_ph, last_color)
               ELSE [s |-> [s EXCEPT !.position = nxt], res |-> None, evals |-> 0]
          [] s.behavior.tag = "LoopForever" ->
               Enter([s EXCEPT !.position = IF nxt >= Len(s.seq) THEN 0 ELSE nxt],
                     now, end, end_ph, last_color)
          [] s.behavior.tag = "LoopN" ->
               IF nxt >= Len(s.seq)
               THEN IF s.behavior.current < s.behavior.cycles
                    THEN Enter([s EXCEPT !.position = 0, !.behavior.current = @ + 1],
                               now, end, end_ph, last_color)
                    ELSE [s |-> [s EXCEPT !.position = nxt], res |-> None, evals |-> 0]
               ELSE Enter([s EXCEPT !.position = nxt], now, end, end_ph, last_color)

\* Sequence::poll clearing never_run before its early return
SequencePollClearsFlag(s, now) ==
    IF s.seq = <<>> \/ s.position >= Len(s.seq)
    THEN [s |-> [s EXCEPT !.never_run = FALSE], res |-> None, evals |-> 0]
    ELSE LET s1 == FirstRun(s, now)
             i == s1.position + 1
         IN  IF s1.behavior.tag = "Nop"
             THEN [s |-> s1, res |-> None, evals |-> 0]
             ELSE LET p == ActionPoll(s1.seq[i], now)
                      s2 == [s1 EXCEPT !.seq[i] = p.act]
                  IN  IF p.res.some
                      THEN [s |-> s2, res |-> p.res, evals |-> p.evals]
                      ELSE [Advance(s2, now) EXCEPT !.evals = @ + p.evals]

\* the or_else of Sequence::poll: the colour of the current action, or else
\* the move to the next one
OrElse(q, now) ==
    IF q.res.some
    THEN q
    ELSE [Advance(q.s, now) EXCEPT !.evals = @ + q.evals]

\* Sequence::poll after the never_run branch
SequencePollRun(s1, now) ==
    IF s1.behavior.tag = "Nop"
    THEN [s |-> s1, res |-> None, evals |-> 0]
    ELSE OrElse(Polled(s1, ActionPoll(s1.seq[s1.position + 1], now)), now)

\* Sequence::poll: the sequence after the call and the value returned
SequencePoll(s, now) ==
    IF s.seq = <<>> \/ s.position >= Len(s.seq)
    THEN [s |-> s, res |-> None, evals |-> 0]
    ELSE SequencePollRun(FirstRun(s, now), now)

(***************************************************************************)
(* The inputs of set(): scripts built with the ActionBuilder, each loaded  *)
(* under some of the repeat policies.                                      *)
(***************************************************************************)
Red2 == <<Build("Static", RED, 2, "once")>>
Black1White2 == <<Build("Static", BLACK, 1, "once"), Build("Static", WHITE, 2, "once")>>
White2Red1 == <<Build("Static", WHITE, 2, "once"), Build("Static", RED, 1, "once")>>
White3Red2 == <<Build("Static", WHITE, 3, "once"), Build("Static", RED, 2, "once")>>
White1SeekRed2 == <<Build("Static", WHITE, 1, "once"), Build("Seek", RED, 2, "once")>>
Red2Forever == <<Build("Static", RED, 2, "forever")>>
White1TimesBlack1 == <<Build("Static", WHITE, 1, "times1"), Build("Static", BLACK, 1, "once")>>
Red1Times2 == <<Build("Static", RED, 1, "times2")>>
NopWhite2 == <<Build("Static", RED, 2, "nop"), Build("Static", WHITE, 2, "once")>>
ZeroRed1Forever == <<Build("Static", WHITE, 0, "once"), Build("Static", RED, 1, "forever")>>
Red1NopSeek == <<Build("Static", RED, 1, "once"), Build("Static", WHITE, 1, "nop"),
                 Build("Seek", BLACK, 2, "once")>>

Scripts ==
    { <<>>, Red2, Black1White2, White2Red1, White3Red2, White1SeekRed2, Red2Forever,
      White1TimesBlack1, Red1Times2, NopWhite2, ZeroRed1Forever, Red1NopSeek }

Policies == {OneShot, LoopForever, LoopN(0, 1), LoopN(0, 2), Nop}

Load(actions, policy) == [actions |-> actions, policy |-> policy]

Loads ==
    { Load(a, OneShot) : a \in Scripts }
    \cup { Load(a, LoopForever) :
             a \in {Red2, Black1White2, Red2Forever, NopWhite2, ZeroRed1Forever, Red1NopSeek} }
    \cup { Load(a, LoopN(0, 1)) :
             a \in {Red2, Black1White2, White2Red1, White1TimesBlack1, White1SeekRed2} }
    \cup { Load(a, LoopN(0, 2)) : a \in {Red2, Red1Times2} }
    \cup { Load(a, Nop) : a \in {<<>>, Red2} }

(***************************************************************************)
(* The state machine.                                                      *)
(***************************************************************************)
VARIABLES
    now,        \* the timer's tick counter
    seq,        \* Sequence.seq
    position,   \* Sequence.position
    behavior,   \* Sequence.behavior
    never_run,  \* Sequence.never_run
    op,         \* the last operation
    ret,        \* what the last poll() returned (NoPoll after set())
    clock,      \* ticks elapsed since construction, not wrapped
    c0,         \* clock at the first poll() after the last set(), -1 before it
    gap,        \* ticks since the last poll(), followed in SpecRegular only
    burst,      \* poll() calls at the current tick
    wraps,      \* how often position went back to 0 since the last set()
    lk,         \* what the last poll() saw on its way
    args,       \* the arguments of the last set()
    twin        \* a second sequence and timer, given the same calls in SpecTwin

vars ==
    <<now, seq, position, behavior, never_run, op, ret, clock, c0, gap, burst, wraps, lk,
      args, twin>>

S == [seq |-> seq, position |-> position, behavior |-> behavior, never_run |-> never_run]

NoLook == [polled |-> FALSE, idx |-> 0, step |-> ActionBuilderNew, exh |-> FALSE,
           after |-> ActionBuilderNew, res1 |-> None,
           end |-> 0, next |-> -1, wrapped |-> FALSE, evals1 |-> 0, evals |-> 0]

\* the arguments of set(), the cursor it found, and whether time passed between
\* the call and the first poll() after it
NoArgs == [actions |-> <<>>, policy |-> Nop, from |-> 0, waited |-> FALSE]

NoTwin == [s |-> SequenceNew, now |-> 0, ret |-> NoPoll]

InitCore ==
    /\ now = TickMod - WrapIn
    /\ \E s \in {SequenceNew, SequenceEmpty} :
          /\ seq = s.seq
          /\ position = s.position
          /\ behavior = s.behavior
          /\ never_run = s.never_run
    /\ op = "init"
    /\ ret = NoPoll
    /\ clock = 0
    /\ c0 = -1
    /\ gap = 0
    /\ burst = 0
    /\ wraps = 0
    /\ lk = NoLook
    /\ args = NoArgs

Init == InitCore /\ twin = NoTwin

Install(t) ==
    /\ seq' = t.seq
    /\ position' = t.position
    /\ behavior' = t.behavior
    /\ never_run' = t.never_run

SetOf(L) ==
    \E l \in L :
        /\ Install(SequenceSet(S, l.actions, l.policy))
        /\ op' = "set"
        /\ ret' = NoPoll
        /\ c0' = -1
        /\ gap' = 0
        /\ wraps' = 0
        /\ lk' = NoLook
        /\ args' = [actions |-> l.actions, policy |-> l.policy, from |-> position,
                     waited |-> FALSE]
        /\ UNCHANGED <<now, clock, burst>>

Set == SetOf(Loads) /\ UNCHANGED twin

ClearCore ==
    /\ seq # <<>>
    /\ Install(SequenceClear(S))
    /\ op' = "clear"
    /\ UNCHANGED <<now, ret, clock, c0, gap, burst, wraps, lk, args>>

Clear == ClearCore /\ UNCHANGED twin

\* what poll() sees: the step under the cursor, whether its behaviour was
\* exhausted, the step as Action::poll left it and what Action::poll returned,
\* its end tick, the step that follows it (-1: none), and whether the cursor
\* went back to the first step
Look(s, t) ==
    IF s.seq = <<>> \/ s.position >= Len(s.seq) \/ s.behavior.tag = "Nop"
    THEN NoLook
    ELSE LET s1 == FirstRun(s, now)
             p == ActionPoll(s1.seq[s.position + 1], now)
         IN  [polled |-> TRUE, idx |-> s.position, step |-> s1.seq[s.position + 1],
              exh |-> ~InnerActionPoll(s1.seq[s.position + 1], now).some,
              after |-> p.act, res1 |-> p.res, end |-> CalcEnd(p.act),
              next |-> IF s.position + 1 < Len(s.seq) THEN s.position + 1
                       ELSE IF s.behavior.tag = "LoopForever"
                               \/ (s.behavior.tag = "LoopN"
                                   /\ s.behavior.current < s.behavior.cycles)
                            THEN 0 ELSE -1,
              wrapped |-> (~p.res.some) /\ s.position + 1 >= Len(s.seq)
                            /\ t.position = 0,
              evals1 |-> p.evals, evals |-> 0]

\* the state and the ghost variables after a poll() that returned r
PollResult(r) ==
        /\ burst < MaxBurst
        /\ burst' = burst + 1
        /\ Install(r.s)
        /\ op' = "poll"
        /\ ret' = r.res
        /\ c0' = IF c0 = -1 /\ seq # <<>> THEN clock ELSE c0
        /\ gap' = 0
        /\ lk' = [Look(S, r.s) EXCEPT !.evals = r.evals]
        /\ wraps' = IF lk'.wrapped THEN wraps + 1 ELSE wraps
        /\ UNCHANGED <<now, clock, args>>

PollCore == PollResult(SequencePoll(S, now))

Poll == PollCore /\ UNCHANGED twin

\* the timer advances by one tick
TickCore ==
    /\ clock < MaxClock
    /\ now' = WrappingAdd(now, 1)
    /\ clock' = clock + 1
    /\ op' = "tick"
    /\ burst' = 0
    /\ args' = IF never_run /\ seq # <<>> THEN [args EXCEPT !.waited = TRUE] ELSE args
    /\ UNCHANGED <<seq, position, behavior, never_run, ret, c0, wraps, lk>>

Tick ==
    /\ TickCore
    /\ UNCHANGED <<gap, twin>>

Next == Set \/ Clear \/ Poll \/ Tick

\* any interleaving of set(), clear() and poll() with the passage of time
Spec == Init /\ [][Next]_vars

(***************************************************************************)
(* A caller that polls at least once per shortest step: after the first    *)
(* poll() the timer may only advance while the time since the last poll()  *)
(* stays within the shortest duration of the loaded steps.                 *)
(***************************************************************************)
RECURSIVE MinDur(_)
MinDur(q) ==
    IF q = <<>> THEN 0
    ELSE IF Len(q) = 1 THEN q[1].duration_ms
    ELSE Min(q[1].duration_ms, MinDur(Tail(q)))

RECURSIVE SumDur(_)
SumDur(q) == IF q = <<>> THEN 0 ELSE q[1].duration_ms + SumDur(Tail(q))

TickRegular ==
    /\ TickCore
    /\ c0 = -1 \/ gap < MinDur(seq)
    /\ gap' = IF c0 = -1 THEN 0 ELSE gap + 1
    /\ UNCHANGED twin

NextRegular == Set \/ Clear \/ Poll \/ TickRegular

SpecRegular == Init /\ [][NextRegular]_vars

(***************************************************************************)
(* Sequences whose steps advance their phase offset: sine and cosine steps *)
(* built as script! rows with AutoIncr and AutoIncrOnStart.                *)
(***************************************************************************)
SinAuto2 == <<Row("sin", WHITE, 2, 6, AutoIncr, "once")>>
SinAuto1CosAuto2 ==
    <<Row("sin", WHITE, 1, 6, AutoIncr, "once"), Row("cos", RED, 2, 6, AutoIncr, "once")>>
SinAuto2Forever == <<Row("sin", RED, 2, 6, AutoIncr, "forever")>>
SinOnStart2 == <<Row("sin", WHITE, 2, 6, AutoIncrOnStart, "once")>>
SinOnStart1CosOnStart2 ==
    <<Row("sin", WHITE, 1, 6, AutoIncrOnStart, "once"),
      Row("cos", RED, 2, 6, AutoIncrOnStart, "once")>>
Hold1Millis3SinOnStart2Forever ==
    <<Row("solid", WHITE, 1, 0, Millis(3), "once"),
      Row("sin", RED, 2, 6, AutoIncrOnStart, "forever")>>

PhaseLoads ==
    { Load(a, LoopForever) :
        a \in {SinAuto2, SinAuto1CosAuto2, SinAuto2Forever, SinOnStart2,
               SinOnStart1CosOnStart2} }
    \cup { Load(a, LoopN(0, 2)) : a \in {SinAuto1CosAuto2, SinOnStart1CosOnStart2} }
    \cup { Load(a, OneShot) :
        a \in {SinAuto1CosAuto2, SinAuto2Forever, Hold1Millis3SinOnStart2Forever} }

SetPhase == SetOf(PhaseLoads) /\ UNCHANGED twin

NextPhase == SetPhase \/ Poll \/ Tick

SpecPhase == Init /\ [][NextPhase]_vars

(***************************************************************************)
(* Two sequences with timers that read different ticks, given the same     *)
(* calls at the same moments: the first one's tick counter wraps WrapIn    *)
(* ticks after construction, the second one's at another moment.           *)
(***************************************************************************)
TwinStarts == {0, TickMod - 1}

TwinLoads ==
    { Load(a, OneShot) :
        a \in {White3Red2, White1SeekRed2, NopWhite2, Red1Times2, ZeroRed1Forever} }
    \cup { Load(a, LoopForever) : a \in {Black1White2, Red2Forever, SinAuto1CosAuto2} }
    \cup { Load(a, LoopN(0, 1)) : a \in {White2Red1} }

InitTwin ==
    /\ InitCore
    /\ \E t \in TwinStarts : twin = [s |-> S, now |-> t, ret |-> NoPoll]

TwinSet ==
    \E l \in TwinLoads :
        /\ SetOf({l})
        /\ twin' = [twin EXCEPT !.s = SequenceSet(@, l.actions, l.policy), !.ret = NoPoll]

TwinPoll ==
    /\ PollCore
    /\ twin' = LET r == SequencePoll(twin.s, twin.now)
               IN  [twin EXCEPT !.s = r.s, !.ret = r.res]

TwinTick ==
    /\ TickCore
    /\ twin' = [twin EXCEPT !.now = WrappingAdd(@, 1)]
    /\ UNCHANGED gap

NextTwin == TwinSet \/ TwinPoll \/ TwinTick

SpecTwin == InitTwin /\ [][NextTwin]_vars

(***************************************************************************)
(* The ActionBuilder on its own: seq[1] is the action under construction   *)
(* and clock counts the builder calls.  In SpecBuild a second builder,     *)
(* twin.s.seq[1], gets the same calls, except that period_ms() may be      *)
(* given another value.                                                    *)
(***************************************************************************)
BuildDurations == {1, 3}
BuildPeriods == {0, 6}
Selectors == {"solid", "sin", "cos", "fade_up", "fade_down"}

Select(a, k) ==
    CASE k = "solid" -> BSolid(a)
      [] k = "sin" -> BSin(a)
      [] k = "cos" -> BCos(a)
      [] k = "fade_up" -> BFadeUp(a)
      [] k = "fade_down" -> BFadeDown(a)

InitBuild ==
    /\ now = 0
    /\ seq = <<ActionBuilderNew>>
    /\ position = 0
    /\ behavior = OneShot
    /\ never_run = TRUE
    /\ op = "build"
    /\ ret = NoPoll
    /\ clock = 0
    /\ c0 = -1
    /\ gap = 0
    /\ burst = 0
    /\ wraps = 0
    /\ lk = NoLook
    /\ args = NoArgs
    /\ twin = [NoTwin EXCEPT !.s.seq = <<ActionBuilderNew>>]

\* one builder call: a1 and a2 are the two actions after it
Call(name, a1, a2) ==
    /\ clock < MaxClock
    /\ clock' = clock + 1
    /\ op' = name
    /\ seq' = <<a1>>
    /\ twin' = [twin EXCEPT !.s.seq = <<a2>>]
    /\ UNCHANGED <<now, position, behavior, never_run, ret, c0, gap, burst, wraps, lk, args>>

CallSelector ==
    \E k \in Selectors : Call(k, Select(seq[1], k), Select(twin.s.seq[1], k))

CallColor ==
    \E c \in {WHITE, RED} : Call("color", BColor(seq[1], c), BColor(twin.s.seq[1], c))

CallForMs ==
    \E d \in BuildDurations : Call("for_ms", BForMs(seq[1], d), BForMs(twin.s.seq[1], d))

CallDurPerMs ==
    \E d \in BuildDurations, p \in BuildPeriods :
        Call("dur_per_ms", BDurPerMs(seq[1], d, p), BDurPerMs(twin.s.seq[1], d, p))

CallPeriodMs ==
    \E p1 \in BuildPeriods, p2 \in BuildPeriods :
        Call("period_ms", BPeriodMs(seq[1], p1), BPeriodMs(twin.s.seq[1], p2))

\* the behaviour selectors and the duration setters, in any order
NextBuildOrder == CallSelector \/ CallForMs \/ CallDurPerMs

SpecBuildOrder == InitBuild /\ [][NextBuildOrder]_vars

\* every call that script! makes before the repeat policy, in any order
NextBuild == CallSelector \/ CallColor \/ CallForMs \/ CallPeriodMs

SpecBuild == InitBuild /\ [][NextBuild]_vars

(***************************************************************************)
(* One-shot sequences of fade and sine steps, loaded with set() and then   *)
(* polled at every tick from the tick of the first poll on.                *)
(***************************************************************************)
\* build().color(c).for_ms(d).fade_up()/fade_down().once(): period 2 * d
FadeStep(sel, c, d) == BOnce(Select(BForMs(BColor(ActionBuilderNew, c), d), sel))
\* build().fade_up()/fade_down().color(c).for_ms(d).once(): period 4 * d
FadeStepSelFirst(sel, c, d) == BOnce(BForMs(BColor(Select(ActionBuilderNew, sel), c), d))

FadeUpWhite6 == <<FadeStep("fade_up", WHITE, 6)>>
FadeUpRed3 == <<FadeStep("fade_up", RED, 3)>>
FadeUpWhite6SelFirst == <<FadeStepSelFirst("fade_up", WHITE, 6)>>
FadeDownWhite6 == <<FadeStep("fade_down", WHITE, 6)>>
White1FadeDownWhite6 == <<Build("Static", WHITE, 1, "once"), FadeStep("fade_down", WHITE, 6)>>
SinWhite6Period6 == <<Row("sin", WHITE, 6, 6, Millis(0), "once")>>
SinRed4Period4 == <<Row("sin", RED, 4, 4, Millis(0), "once")>>
SinWhite6Period3 == <<Row("sin", WHITE, 6, 3, Millis(0), "once")>>
SinRed3Period6 == <<Row("sin", RED, 3, 6, Millis(0), "once")>>
CosWhite6Period6 == <<Row("cos", WHITE, 6, 6, Millis(0), "once")>>
Black1SinWhite6Black1 ==
    <<Build("Static", BLACK, 1, "once"), Row("sin", WHITE, 6, 6, Millis(0), "once"),
      Build("Static", BLACK, 1, "once")>>

WaveScripts ==
    { FadeUpWhite6, FadeUpRed3, FadeUpWhite6SelFirst, FadeDownWhite6, White1FadeDownWhite6,
      SinWhite6Period6, SinRed4Period4, SinWhite6Period3, SinRed3Period6, CosWhite6Period6,
      Black1SinWhite6Black1 }

InitWave ==
    /\ now = TickMod - WrapIn
    /\ \E a \in WaveScripts :
          /\ seq = SequenceSet(SequenceEmpty, a, OneShot).seq
          /\ args = [actions |-> a, policy |-> OneShot, from |-> 0, waited |-> FALSE]
    /\ position = 0
    /\ behavior = OneShot
    /\ never_run = TRUE
    /\ op = "set"
    /\ ret = NoPoll
    /\ clock = 0
    /\ c0 = -1
    /\ gap = 0
    /\ burst = 0
    /\ wraps = 0
    /\ lk = NoLook
    /\ twin = NoTwin

\* the timer advances once the sequence was polled at the current tick
TickWave ==
    /\ burst >= 1
    /\ TickCore
    /\ UNCHANGED <<gap, twin>>

NextWave == Poll \/ TickWave

SpecWave == InitWave /\ [][NextWave]_vars

(***************************************************************************)
(* StayColor::poll on its own: a hold step that started at tick `start`,   *)
(* polled at every tick after it.                                          *)
(***************************************************************************)
HoldStarts == {0, 5, TickMod - 2}
HoldDurations == 0..3
Colors == {BLACK, WHITE, RED}

InitHold ==
    /\ \E s \in HoldStarts, d \in HoldDurations, c \in Colors :
          /\ seq = <<[Build("Static", c, d, "once") EXCEPT !.start_tick = s]>>
          /\ now = s
    /\ position = 0
    /\ behavior = OneShot
    /\ never_run = FALSE
    /\ op = "init"
    /\ ret = StayColorPoll(seq[1], now)
    /\ clock = 0
    /\ c0 = 0
    /\ gap = 0
    /\ burst = 0
    /\ wraps = 0
    /\ lk = NoLook
    /\ args = NoArgs
    /\ twin = NoTwin

HoldPoll ==
    /\ clock < MaxClock
    /\ now' = WrappingAdd(now, 1)
    /\ clock' = clock + 1
    /\ ret' = StayColorPoll(seq[1], now')
    /\ op' = "hold"
    /\ UNCHANGED <<seq, position, behavior, never_run, c0, gap, burst, wraps, lk, args,
                   twin>>

SpecHold == InitHold /\ [][HoldPoll]_vars

(***************************************************************************)
(* SeekColor on its own: a zero-length solid step hands its colour to a    *)
(* seek step, which is polled at every tick of its duration.               *)
(***************************************************************************)
\* state after set(a, p) on an empty sequence
Loaded(a, p) ==
    /\ now = TickMod - WrapIn
    /\ seq = SequenceSet(SequenceEmpty, a, p).seq
    /\ args = [actions |-> a, policy |-> p, from |-> 0, waited |-> FALSE]
    /\ position = 0
    /\ behavior = p
    /\ never_run = TRUE
    /\ op = "set"
    /\ ret = NoPoll
    /\ clock = 0
    /\ c0 = -1
    /\ gap = 0
    /\ burst = 0
    /\ wraps = 0
    /\ lk = NoLook
    /\ twin = NoTwin

SeekColors == {<<0, 39, 216>>, <<216, 0, 255>>, <<255, 216, 0>>, <<39, 255, 39>>}
SeekDurations == {1, 3, 12}

SolidThenSeek(h, t, d) == <<Build("Static", h, 0, "once"), Build("Seek", t, d, "once")>>

InitSeek ==
    \E h \in SeekColors, t \in SeekColors, d \in SeekDurations :
        Loaded(SolidThenSeek(h, t, d), OneShot)

SpecSeek == InitSeek /\ [][NextWave]_vars

(***************************************************************************)
(* Zero-duration steps of every behaviour kind and step policy, alone,     *)
(* first and second in the list, under every sequence policy.              *)
(***************************************************************************)
ZeroSteps ==
    {Build("Static", WHITE, 0, rep) : rep \in {"once", "forever", "times1", "nop"}}
        \cup {Build("Seek", RED, 0, rep) : rep \in {"once", "forever"}}
        \cup {Row(sel, WHITE, 0, 0, Millis(0), rep) :
                  sel \in {"sin", "fade_up"}, rep \in {"once", "forever", "times1"}}

ZeroScripts ==
    {<<z>> : z \in ZeroSteps}
        \cup {<<z, Build("Static", RED, 1, "once")>> : z \in ZeroSteps}
        \cup {<<Build("Static", RED, 1, "once"), z>> : z \in ZeroSteps}

ZeroPolicies == {OneShot, LoopForever, LoopN(0, 1), Nop}

InitZero == \E a \in ZeroScripts, p \in ZeroPolicies : Loaded(a, p)

NextZero == Poll \/ Tick

SpecZero == InitZero /\ [][NextZero]_vars

(***************************************************************************)
(* Action::reinit and Action::poll applied to one stored step, with any    *)
(* start tick, phase and handoff colour.                                   *)
(***************************************************************************)
ReinitSteps ==
    {Row("sin", WHITE, 2, 6, ph, rp) :
        ph \in {Millis(3), AutoIncr, AutoIncrOnStart}, rp \in {"once", "forever", "times1"}}
        \cup {Build("Static", RED, 1, "times2"), Build("Seek", RED, 2, "nop")}

ReinitTicks == {5, TickMod - 1}
ReinitPhases == {4, 7}

InitReinit == \E a \in ReinitSteps : Loaded(<<a>>, OneShot)

\* seq[0].reinit(start, end_ph, last_color)
ReinitCall ==
    \E start \in ReinitTicks, ph \in ReinitPhases, c \in Colors :
        /\ seq' = <<ActionReinit(seq[1], start, ph, c)>>
        /\ op' = "reinit"
        /\ args' = [actions |-> args.actions, policy |-> args.policy, from |-> 0,
                    waited |-> FALSE, start |-> start, end_ph |-> ph, last_color |-> c]
        /\ UNCHANGED <<now, position, behavior, never_run, ret, clock, c0, gap, burst,
                       wraps, lk, twin>>

\* seq[0].poll()
ReinitPoll ==
    /\ burst < MaxBurst
    /\ burst' = burst + 1
    /\ seq' = <<ActionPoll(seq[1], now).act>>
    /\ ret' = ActionPoll(seq[1], now).res
    /\ op' = "poll"
    /\ UNCHANGED <<now, position, behavior, never_run, clock, c0, gap, wraps, lk, args,
                   twin>>

NextReinit == ReinitCall \/ ReinitPoll \/ Tick

SpecReinit == InitReinit /\ [][NextReinit]_vars

(***************************************************************************)
(* Finite sequences polled at every tick: the caller keeps polling and the *)
(* timer keeps advancing.                                                  *)
(***************************************************************************)
Zero0Red1Times == <<Build("Static", WHITE, 0, "once"), Build("Static", RED, 1, "times1")>>

LiveLoads ==
    {<<Red2, OneShot>>, <<Red2, LoopN(0, 1)>>, <<Red2, LoopN(0, 2)>>,
     <<Black1White2, OneShot>>, <<Black1White2, LoopN(0, 1)>>,
     <<White1SeekRed2, OneShot>>,
     <<White1TimesBlack1, OneShot>>, <<White1TimesBlack1, LoopN(0, 1)>>,
     <<Red1Times2, OneShot>>, <<Red1Times2, LoopN(0, 2)>>,
     <<NopWhite2, OneShot>>, <<Red1NopSeek, OneShot>>,
     <<Zero0Red1Times, LoopN(0, 2)>>}

InitLive == \E l \in LiveLoads : Loaded(l[1], l[2])

\* a poll() call seen through the count of polls at the current tick: Poll is
\* the only action that raises burst and is enabled exactly when
\* burst < MaxBurst
Polling == burst < MaxBurst /\ burst' = burst + 1

\* poll() keeps being called and the timer keeps advancing
SpecLive == InitLive /\ [][NextWave]_vars /\ WF_burst(Polling) /\ WF_vars(TickWave)

TypeOK ==
    /\ now \in 0..(TickMod - 1)
    /\ position \in 0..Len(seq)
    /\ Len(seq) <= Cap

(***************************************************************************)
(* Properties.                                                             *)
(***************************************************************************)
\* ticks since the first poll() after the last set()
Age == clock - c0

\* every step of q is OneShot with a non-zero duration
OneShotSteps(q) ==
    /\ q # <<>>
    /\ \A i \in 1..Len(q) : q[i].behavior.tag = "OneShot" /\ q[i].duration_ms > 0

\* the step of q that is playing t ticks into a pass over q (t < SumDur(q))
RECURSIVE StepAt(_, _)
StepAt(q, t) == IF t < q[1].duration_ms THEN 0 ELSE 1 + StepAt(Tail(q), t - q[1].duration_ms)

\* C1: a OneShot sequence of OneShot steps with non-zero durations, polled at
\* increments no longer than its shortest step, returns Some at every poll less
\* than d1+...+dn ticks after the first poll and None at every poll from
\* d1+...+dn ticks after the first poll on.
C1_Chaining ==
    (op = "poll" /\ behavior.tag = "OneShot" /\ OneShotSteps(seq))
        => (ret.some <=> Age < SumDur(seq))

\* C1 happens: a two-step sequence returns its first None exactly d1+d2 ticks
\* after its first poll, the tick counter having wrapped on the way.
C1_Witness ==
    /\ op = "poll" /\ behavior.tag = "OneShot" /\ OneShotSteps(seq)
    /\ Len(seq) = 2 /\ position = 2 /\ lk.polled
    /\ ret = None /\ Age = SumDur(seq)
    /\ now < WrapIn + MaxClock

\* C2: once a poll() has returned None, every later poll() returns None until
\* set() is called.
C2_NoneIsFinal == [][(ret = None /\ op' = "poll") => ret' = None]_vars

C4_TimesStepTerminal ==
    (op = "poll" /\ lk.polled /\ lk.step.behavior.tag = "LoopN"
        /\ lk.step.behavior.cycles >= 1 /\ ~lk.res1.some)
        => lk.step.behavior.current = lk.step.behavior.cycles

\* C5: a step with policy Forever and a non-zero duration returns Some at
\* every poll.
C5_ForeverStepNeverTerminal ==
    (op = "poll" /\ lk.polled /\ lk.step.behavior.tag = "LoopForever"
        /\ lk.step.duration_ms > 0)
        => lk.res1.some

\* C6: a hold step of colour C and duration D that started at tick s returns
\* Some(C) at every tick less than D after s and None from s+D on.
C6_Hold ==
    ret = IF clock < seq[1].duration_ms THEN Some(seq[1].color) ELSE None

\* C6 happens: a hold step that started before the tick counter wrapped is
\* polled exactly at the end of its non-zero duration.
C6_Witness ==
    /\ op = "hold" /\ seq[1].duration_ms > 0 /\ clock = seq[1].duration_ms
    /\ now < seq[1].start_tick /\ ret = None

\* the first step can produce a colour
FirstStepLive == seq # <<>> /\ seq[1].behavior.tag # "Nop" /\ seq[1].duration_ms > 0

\* the step is the first poll() after set() on a non-empty sequence
FirstPollStep == op' = "poll" /\ never_run /\ seq # <<>>

\* C7 as stated: the first poll() on a non-empty sequence sets the first
\* step's start_tick to the timer value and its hand-off colour to black and
\* clears never_run, and a first step that is not Disabled and has a non-zero
\* duration returns Some on that poll and on every poll less than its duration
\* after it.
C7_TimeZero_Original ==
    [][/\ FirstPollStep =>
            /\ ~never_run'
            /\ seq'[1].start_tick = now
            /\ seq'[1].last_color = BLACK
            /\ FirstStepLive => ret'.some
       /\ (op' = "poll" /\ FirstStepLive' /\ Age' < seq'[1].duration_ms) =>
            ret'.some /\ position' = 0]_vars

\* C7 amended: as C7, the first step returning Some only when the sequence's
\* own repeat policy is not Disabled.
C7_TimeZero ==
    [][/\ FirstPollStep =>
            /\ ~never_run'
            /\ seq'[1].start_tick = now
            /\ seq'[1].last_color = BLACK
            /\ (FirstStepLive /\ behavior.tag # "Nop") => ret'.some
       /\ (op' = "poll" /\ FirstStepLive' /\ behavior'.tag # "Nop"
             /\ Age' < seq'[1].duration_ms) =>
            /\ ret'.some /\ position' = 0
            /\ seq'[1].start_tick = WrappingAdd(TickMod - WrapIn, c0')]_vars

\* C7 happens: set() was called, time passed, and a later poll finds the
\* first step still running, counted from the first poll.
C7_Witness ==
    /\ op = "poll" /\ FirstStepLive /\ behavior.tag # "Nop"
    /\ args.waited /\ Age = seq[1].duration_ms - 1 /\ Age > 0
    /\ ret.some /\ position = 0

\* C8: after set(actions, policy) the storage holds the first min(N, len)
\* actions in order, position is 0, never_run is true and the policy is the
\* given one, whatever the state before.
C8_Set ==
    op = "set" =>
        /\ Len(seq) = (IF Len(args.actions) < Cap THEN Len(args.actions) ELSE Cap)
        /\ \A i \in 1..Len(seq) : seq[i] = args.actions[i]
        /\ position = 0
        /\ never_run
        /\ behavior = args.policy

\* C8 happens: set() with more actions than the capacity on a sequence whose
\* cursor had moved.
C8_Witness ==
    /\ op = "set" /\ args.from > 0 /\ Len(args.actions) > Cap
    /\ Len(seq) = Cap /\ clock > 0

\* the last poll() found its step exhausted, a next step exists, and the poll
\* tick lies in the next step's window
AtBoundary ==
    /\ op = "poll" /\ lk.polled /\ ~lk.res1.some /\ lk.next # -1
    /\ WrappingSub(now, lk.end) < seq[lk.next + 1].duration_ms

\* C9 as stated: a poll that finds the current step exhausted, with a next
\* step and the tick inside the next step's window, moves the cursor to the
\* next step and returns that step's colour.
C9_Lookahead_Original ==
    AtBoundary =>
        /\ position = lk.next
        /\ ret.some
        /\ seq[position + 1].kind = "Static" => ret.color = seq[position + 1].color

\* C9 amended: as C9, for a next step whose repeat policy is not Disabled.
C9_Lookahead ==
    (AtBoundary /\ seq[lk.next + 1].behavior.tag # "Nop") =>
        /\ position = lk.next
        /\ seq[position + 1].start_tick = lk.end
        /\ ret.some
        /\ seq[position + 1].kind = "Static" => ret.color = seq[position + 1].color

\* C9 happens: a poll exactly at the boundary tick returns the colour of the
\* second step.
C9_Witness ==
    /\ AtBoundary /\ lk.idx = 0 /\ lk.next = 1 /\ now = lk.end
    /\ seq[2].behavior.tag # "Nop" /\ seq[2].color # seq[1].color
    /\ ret = Some(seq[2].color)

\* C10: a poll() on an empty sequence, or one whose position has reached len,
\* returns None and changes nothing of the sequence.
C10_Terminal ==
    [][(op' = "poll" /\ (seq = <<>> \/ position >= Len(seq)))
          => (ret' = None /\ UNCHANGED <<seq, position, behavior, never_run>>)]_vars

\* C10 happens: an exhausted, non-empty sequence was polled again.
C10_Witness ==
    /\ op = "poll" /\ seq # <<>> /\ position = Len(seq) /\ behavior.tag # "Nop"
    /\ lk = NoLook /\ ret = None /\ ~never_run

\* the step is a poll() that found its step exhausted and moved the cursor to
\* the step lk'.next, which was re-initialised once
EnterStep ==
    /\ op' = "poll" /\ lk'.polled /\ ~lk'.res1.some /\ lk'.next # -1
    /\ position' = lk'.next
    /\ seq'[lk'.next + 1].start_tick = lk'.end

\* the step is a poll() in which a step with policy Forever found its
\* behaviour exhausted and started itself again
RepeatStep ==
    /\ op' = "poll" /\ lk'.polled /\ lk'.exh
    /\ lk'.step.behavior.tag = "LoopForever"

\* the step that EnterStep enters, as it was just before it was entered
Entered == IF lk'.next = lk'.idx THEN lk'.after ELSE seq[lk'.next + 1]

\* C11 as stated: with auto-advance Forever, a step that is entered again
\* (by its own Forever policy, or by the sequence coming back to it) gets the
\* phase offset it had in its previous iteration plus its own duration.
C11_PhaseForever_Original ==
    [][/\ (RepeatStep /\ lk'.step.auto_incr_phase = "Forever") =>
            lk'.after.phase_offset_ms
                = WrappingAdd(lk'.step.phase_offset_ms, lk'.step.duration_ms)
       /\ (EnterStep /\ Entered.auto_incr_phase = "Forever" /\ wraps' >= 1) =>
            seq'[lk'.next + 1].phase_offset_ms
                = WrappingAdd(Entered.phase_offset_ms, Entered.duration_ms)]_vars

\* C11 amended: with auto-advance Forever, a step that is entered gets the
\* phase offset at which the step just exhausted ended, that step's phase
\* offset plus that step's duration; this is the entered step's own previous
\* phase offset plus its own duration when the step repeats by its own Forever
\* policy and when the sequence has one step.
C11_PhaseForever ==
    [][/\ (RepeatStep /\ lk'.step.auto_incr_phase = "Forever") =>
            lk'.after.phase_offset_ms
                = WrappingAdd(lk'.step.phase_offset_ms, lk'.step.duration_ms)
       /\ (EnterStep /\ Entered.auto_incr_phase = "Forever") =>
            /\ seq'[lk'.next + 1].phase_offset_ms
                  = WrappingAdd(lk'.after.phase_offset_ms, lk'.after.duration_ms)
            /\ Len(seq) = 1 =>
                  seq'[1].phase_offset_ms
                    = WrappingAdd(Entered.phase_offset_ms, Entered.duration_ms)]_vars

\* C11 happens: a two-step looping sequence came back to its first step, whose
\* phase offset is now the sum of both durations, not its own duration.
C11_Witness ==
    /\ op = "poll" /\ lk.polled /\ lk.wrapped /\ Len(seq) = 2 /\ wraps = 1
    /\ seq[1].auto_incr_phase = "Forever" /\ seq[2].auto_incr_phase = "Forever"
    /\ position = 0 /\ ret.some
    /\ seq[1].phase_offset_ms = seq[1].duration_ms + seq[2].duration_ms

\* EnterStep is the first transition into the step it enters since set()
FirstEntry == IF lk'.next = 0 THEN wraps' = 1 ELSE wraps' = 0

\* C12: a step built with auto-advance Once, the step at position 0 of a
\* looping sequence included, gets the end phase of the step just exhausted on
\* the first transition into it, and keeps its phase offset on every later
\* transition into it.
C12_PhaseOnce ==
    [][(EnterStep /\ args.actions[lk'.next + 1].auto_incr_phase = "Once") =>
          seq'[lk'.next + 1].phase_offset_ms
            = IF FirstEntry
              THEN WrappingAdd(lk'.after.phase_offset_ms, lk'.after.duration_ms)
              ELSE Entered.phase_offset_ms]_vars

\* C13: a poll() that finds the cursor on a Disabled step, with a following
\* step that is not Disabled and has a non-zero duration, returns a colour of
\* the following step, whatever the duration of the Disabled step.
C13_NopYields ==
    (op = "poll" /\ lk.polled /\ lk.step.behavior.tag = "Nop" /\ lk.next # -1
        /\ seq[lk.next + 1].behavior.tag # "Nop" /\ seq[lk.next + 1].duration_ms > 0)
        => /\ ret.some
           /\ position = lk.next

\* C14: two sequences given the same calls at the same elapsed offsets return
\* the same results and are on the same step, whatever tick each timer read
\* at the first poll and whether or not its counter wraps on the way.
C14_WrapTransparent ==
    /\ ret = twin.ret
    /\ position = twin.s.position

\* C14 happens: the second step of the first sequence started after the tick
\* counter wrapped, the twin's counter did not wrap, and both return the same
\* colour.
C14_Witness ==
    /\ op = "poll" /\ Len(seq) = 2 /\ position = 1 /\ ret.some
    /\ seq[2].start_tick < seq[1].start_tick
    /\ twin.s.seq[2].start_tick > twin.s.seq[1].start_tick
    /\ twin.ret = ret

\* C15: after any order of fade_up/fade_down and for_ms/dur_per_ms calls, a
\* fade step has period_ms = 2 * duration_ms.
C15_FadePeriod ==
    (seq[1].kind = "Fade" /\ seq[1].duration_ms > 0)
        => seq[1].period_ms = 2 * seq[1].duration_ms

\* C16: two fade steps built with the same calls, except for the value given
\* to period_ms(), have the same period.
C16_PeriodIgnored ==
    (seq[1].kind = "Fade" /\ seq[1].duration_ms > 0)
        => seq[1].period_ms = twin.s.seq[1].period_ms

\* colour a is at most colour b in every channel
ColorLeq(a, b) == \A i \in 1..3 : a[i] <= b[i]

\* the tick, counted from the first poll, of the poll before this one
PrevAge == IF burst = 0 THEN Age - 1 ELSE Age

\* the sequence is a single fade step using the function f
FadeOnly(f) == Len(seq) = 1 /\ seq[1].kind = "Fade" /\ seq[1].func = f

\* C17: a one-shot sequence of a single fade_up step of colour C and duration
\* D, polled at every tick from its first poll, returns Some(BLACK) at the
\* first poll, a colour not below the previous one in any channel at every
\* poll before D, Some(C) at the last tick before D, and None from D on; a
\* fade_down step is the mirror, from Some(C) to Some(BLACK).
C17_FadeBounds ==
    [][/\ (op' = "poll" /\ FadeOnly("sin")) =>
            /\ Age' = 0 => ret' = Some(BLACK)
            /\ (Age' < seq[1].duration_ms) =>
                  /\ ret'.some
                  /\ ret.some => ColorLeq(ret.color, ret'.color)
            /\ Age' = seq[1].duration_ms - 1 => ret' = Some(seq[1].color)
            /\ Age' >= seq[1].duration_ms => ret' = None
       /\ (op' = "poll" /\ FadeOnly("cos")) =>
            /\ Age' = 0 => ret' = Some(seq[1].color)
            /\ (Age' < seq[1].duration_ms) =>
                  /\ ret'.some
                  /\ ret.some => ColorLeq(ret'.color, ret.color)
            /\ Age' = seq[1].duration_ms - 1 => ret' = Some(BLACK)
            /\ Age' >= seq[1].duration_ms => ret' = None]_vars

\* the sequence is a single sine-mode step with phase offset 0
SinOnly ==
    /\ Len(seq) = 1 /\ seq[1].kind = "Sin" /\ seq[1].func = "sin"
    /\ seq[1].phase_offset_ms = 0 /\ seq[1].auto_incr_phase = "Never"

\* C18: a sine-mode step with phase offset 0 and period P (rectified period
\* 2P), polled at every tick, returns colours that do not fall from poll to
\* poll up to P/2, do not rise from poll to poll between P/2 and P, and at P/2
\* returns a colour that no other tick of the step exceeds.
C18_SineMonotone ==
    [][(op' = "poll" /\ SinOnly /\ ret'.some) =>
          /\ (ret.some /\ 2 * Age' <= seq[1].period_ms) => ColorLeq(ret.color, ret'.color)
          /\ (ret.some /\ 2 * PrevAge >= seq[1].period_ms /\ Age' <= seq[1].period_ms) =>
                ColorLeq(ret'.color, ret.color)
          /\ 2 * Age' = seq[1].period_ms =>
                \A t \in 0..(seq[1].duration_ms - 1) :
                    ColorLeq(InnerActionPoll(seq'[1], WrappingAdd(seq'[1].start_tick, t)).color,
                             ret'.color)]_vars

\* C18 happens: a sine step is polled in the second quarter of its rectified
\* period, after the tick counter wrapped, and returns a colour between black
\* and its own.
C18_Witness ==
    /\ op = "poll" /\ SinOnly /\ ret.some
    /\ 2 * Age > seq[1].period_ms /\ Age < seq[1].period_ms
    /\ ret.color[1] > 0 /\ ret.color[1] < seq[1].color[1]
    /\ now < seq[1].start_tick

\* start_tick + duration in ticks of step a, modulo the width of the counter
EndOf(a) == (a.start_tick + a.duration_ms * (TicksPerSecond \div 1000)) % TickMod

\* the step moved the cursor from an exhausted step to the step lk'.next
MoveOn ==
    /\ op' = "poll" /\ lk'.polled /\ ~lk'.res1.some /\ lk'.next # -1
    /\ position' = lk'.next

\* C19: when a poll moves on from an exhausted step, the next step starts at
\* the exhausted step's start_tick + duration, whatever the tick of the poll
\* (a next step with policy Forever that is itself exhausted at that tick
\* starts one of its own durations later); a step that repeats by its own
\* Forever policy restarts at its start_tick + duration; hence step j of a
\* OneShot sequence of OneShot steps starts at the tick of the first poll plus
\* the durations of the steps before it.
C19_NoDrift ==
    [][/\ MoveOn =>
            LET n == seq'[lk'.next + 1] IN
            \/ n.start_tick = EndOf(lk'.after)
            \/ /\ n.behavior.tag = "LoopForever"
               /\ n.start_tick = (EndOf(lk'.after) + n.duration_ms) % TickMod
       /\ RepeatStep => lk'.after.start_tick = EndOf(lk'.step)
       /\ (op' = "poll" /\ behavior.tag = "OneShot" /\ OneShotSteps(seq)
             /\ position' < Len(seq)) =>
            seq'[position' + 1].start_tick
              = (TickMod - WrapIn + c0' + SumDur(SubSeq(seq, 1, position'))) % TickMod]_vars

\* C19 happens: the end of the first step was detected late, after the tick
\* counter wrapped, and the second step started at the first step's end.
C19_Witness ==
    /\ op = "poll" /\ behavior.tag = "OneShot" /\ OneShotSteps(seq) /\ Len(seq) = 2
    /\ lk.polled /\ lk.idx = 0 /\ ~lk.res1.some /\ position = 1 /\ ret.some
    /\ now # seq[2].start_tick
    /\ seq[2].start_tick = EndOf(seq[1])
    /\ seq[2].start_tick < seq[1].start_tick

\* C20: the hand-off colour given to the step a poll moves on to is the last
\* colour the exhausted step returned.
C20_HandOff ==
    [][(MoveOn /\ ret.some /\ seq'[lk'.next + 1].start_tick = lk'.end) =>
          seq'[lk'.next + 1].last_color = ret.color]_vars

\* the interpolation of C27 in exact integer arithmetic
ExactChan(h, t, e, d) ==
    IF t >= h THEN h + ((t - h) * e) \div d ELSE h - ((h - t) * e) \div d

\* the seek step of SolidThenSeek returned a colour
SeekSampled == op = "poll" /\ ret.some /\ position = 1 /\ seq[2].kind = "Seek"

\* C27: for all 8-bit handoff h and target t per channel and all
\* 0 <= elapsed < duration, the output channel of the interpolation equals
\* h + trunc((t - h) * elapsed / duration), lies between min(h,t) and
\* max(h,t) inclusive, equals h at elapsed 0 and never wraps around the 8-bit
\* range, also when t < h.
C27_SeekRange ==
    SeekSampled =>
        \A i \in 1..3 :
            LET h == seq[2].last_color[i]
                t == seq[2].color[i]
                e == MillisSince(now, seq[2].start_tick)
                d == seq[2].duration_ms
            IN  /\ h = seq[1].color[i]
                /\ e < d
                /\ ret.color[i] = ExactChan(h, t, e, d)
                /\ ret.color[i] >= Min(h, t)
                /\ ret.color[i] <= (IF h > t THEN h ELSE t)
                /\ e = 0 => ret.color[i] = h

\* the poll about to be recorded evaluated the current step's behaviour and
\* its first evaluation returned a colour
Sampled == op' = "poll" /\ lk'.polled /\ lk'.evals1 >= 1 /\ ~lk'.exh

\* C21: if never_run is already false and the current step's behaviour returns
\* Some on its first evaluation, Sequence.poll returns that colour and leaves
\* position, the sequence loop counter and every step (loop counter,
\* start_tick, phase_offset, auto-advance mode, handoff colour) unchanged;
\* polling again at the same tick returns the same colour.
C21_SamplingFrame ==
    [][(~never_run /\ Sampled)
          => /\ ret' = InnerActionPoll(seq[position + 1], now)
             /\ ret'.some
             /\ UNCHANGED <<seq, position, behavior, never_run>>
             /\ SequencePoll(S', now').res = ret'
             /\ SequencePoll(S', now').s = S']_vars

C21_Witness ==
    /\ op = "poll" /\ burst >= 2 /\ ret.some
    /\ lk.polled /\ ~lk.exh /\ lk.evals = 1
    /\ lk.step.behavior.tag = "LoopForever"
    /\ position >= 1

\* C22: every Sequence.poll call does a bounded amount of work: it changes
\* position by at most one step (unchanged, +1, or a wrap to 0), changes no
\* step other than the current one and the one it moves to, retries each
\* action at most once (two evaluations per action) and evaluates a behaviour
\* at most four times, for every policy combination and every step duration
\* including 0.
C22_BoundedWork ==
    [][op' = "poll"
          => /\ position' \in {position, position + 1, 0}
             /\ position' <= Len(seq')
             /\ Len(seq') = Len(seq)
             /\ \A i \in 1..Len(seq) :
                    seq'[i] # seq[i] => i \in {position + 1, position' + 1}
             /\ lk'.evals1 <= 2
             /\ lk'.evals - lk'.evals1 <= 2
             /\ lk'.evals <= 4]_vars

\* a poll that retried the exhausted step, wrapped, and retried the step it
\* entered: four evaluations
C22_Witness ==
    /\ op = "poll" /\ lk.polled /\ lk.evals = 4 /\ lk.evals1 = 2
    /\ lk.wrapped /\ position = 0

\* the poll about to be recorded is the first poll of the zero-duration step
\* at index i since it was (re-)initialised: the first poll after set() with
\* the cursor on it, or the poll that enters it
ZeroFirstPolled(i) ==
    /\ op' = "poll"
    /\ i < Len(seq)
    /\ seq[i + 1].duration_ms = 0
    /\ \/ never_run /\ lk'.polled /\ position = i
       \/ lk'.polled /\ ~lk'.res1.some /\ lk'.next = i

C24_CursorAndFlag ==
    /\ position \in 0..Len(seq)
    /\ never_run
          => /\ lk = NoLook
             /\ ret.some = FALSE
             /\ seq # <<>> => c0 = -1 /\ op \in {"set", "tick"}
             /\ \A i \in 1..Len(seq) : seq[i] = args.actions[i]

\* a sequence that had played to its end was loaded again and time has
\* passed without a poll
C24_Witness ==
    /\ never_run /\ seq # <<>> /\ position = 0
    /\ args.from = Cap /\ args.waited /\ op = "tick"

\* every Times counter, of the sequence and of each step, is within its total
CountersInRange ==
    /\ behavior.tag = "LoopN" => behavior.current <= behavior.cycles
    /\ \A i \in 1..Len(seq) :
          seq[i].behavior.tag = "LoopN"
              => seq[i].behavior.current <= seq[i].behavior.cycles

\* C25: for every Times policy that starts with current <= total (a step
\* built with times(n), or a sequence policy LoopN installed by set()),
\* current <= total holds in every reachable state: current is only
\* incremented while current < total (by one per wrap at the sequence level),
\* is reset to 0 when a step is re-initialised (so it is 0 if the step then
\* returns a colour, at most 1 otherwise), and the sequence-level
\* counter never decreases between two set() calls.
C25_TimesCounters ==
    [][/\ CountersInRange'
       /\ (op' # "set" /\ behavior.tag = "LoopN")
             => /\ behavior'.tag = "LoopN"
                /\ behavior'.cycles = behavior.cycles
                /\ behavior'.current >= behavior.current
                /\ behavior'.current <= behavior.current + 1
                /\ behavior'.current > behavior.current => behavior.current < behavior.cycles
       /\ \A i \in 1..Len(seq) :
             (op' = "poll" /\ seq[i].behavior.tag = "LoopN")
                => /\ seq'[i].behavior.cycles = seq[i].behavior.cycles
                   /\ IF lk'.polled /\ ~lk'.res1.some /\ lk'.next = i - 1
                      THEN /\ seq'[i].behavior.current <= 1
                           /\ ret'.some => seq'[i].behavior.current = 0
                      ELSE /\ seq'[i].behavior.current >= seq[i].behavior.current
                           /\ seq'[i].behavior.current <= seq[i].behavior.current + 1
                           /\ seq'[i].behavior.current > seq[i].behavior.current
                                 => seq[i].behavior.current < seq[i].behavior.cycles]_vars

\* a Times step that had used up its count is entered again on a wrap of a
\* Times sequence and starts from 0
C25_Witness ==
    /\ op = "poll" /\ lk.wrapped /\ ret.some
    /\ behavior.tag = "LoopN" /\ behavior.current = 2 /\ behavior.cycles = 2
    /\ lk.after.behavior.tag = "LoopN" /\ lk.after.behavior.current >= 1
    /\ seq[position + 1].behavior.tag = "LoopN"
    /\ seq[position + 1].behavior.current = 0

\* the fields of a step that neither reinit nor poll may change
Configured(a) ==
    <<a.duration_ms, a.period_ms, a.color, a.kind, a.func, a.behavior.tag,
      a.behavior.cycles>>

\* C26: reinit changes only timing hand-off state: it sets start_tick and the
\* handoff colour, overwrites phase_offset only when the auto-advance mode is
\* not Never (turning Once into Never), resets the step's Times counter to 0,
\* and leaves duration, period, target colour, behaviour kind and the repeat
\* policy's total unchanged; with mode Never, phase_offset keeps its
\* configured value after any number of transitions and loops.
C26_ReinitFrame ==
    [][/\ op' = "reinit"
             => /\ seq'[1].start_tick = args'.start
                /\ seq'[1].last_color = args'.last_color
                /\ seq'[1].phase_offset_ms =
                       IF seq[1].auto_incr_phase = "Never"
                       THEN seq[1].phase_offset_ms ELSE args'.end_ph
                /\ seq'[1].auto_incr_phase =
                       IF seq[1].auto_incr_phase = "Once"
                       THEN "Never" ELSE seq[1].auto_incr_phase
                /\ seq'[1].behavior.current = 0
       /\ Configured(seq'[1]) = Configured(seq[1])
       /\ args.actions[1].auto_incr_phase = "Never"
             => /\ seq'[1].auto_incr_phase = "Never"
                /\ seq'[1].phase_offset_ms = args.actions[1].phase_offset_ms]_vars

\* a step with a fixed phase of 3 ms that has looped and been re-initialised
\* with another phase still has its own
C26_Witness ==
    /\ op = "reinit" /\ args.end_ph = 7 /\ args.start = 5
    /\ args.actions[1].auto_incr_phase = "Never"
    /\ args.actions[1].behavior.tag = "LoopForever"
    /\ seq[1].phase_offset_ms = 3
    /\ seq[1].start_tick = 5
    /\ clock >= 2

\* C28: a non-empty sequence with sequence policy Forever is never exhausted:
\* after every poll, for any step durations, step policies and poll ticks,
\* position < len holds, so the terminal state position == len is not reached
\* until set() or clear().
C28_ForeverNeverExhausted ==
    (behavior.tag = "LoopForever" /\ seq # <<>>) => position < Len(seq)

\* a late poll of a full Forever sequence wrapped from the last step to the
\* first and got None from it
C28_Witness ==
    /\ op = "poll" /\ behavior.tag = "LoopForever" /\ Len(seq) = Cap
    /\ lk.wrapped /\ lk.idx = Cap - 1 /\ ~ret.some
    /\ position = 0

====
